---- MODULE Spec2Model ----
(***************************************************************************)
(* The WASM bridge of atora (src/src/lib/wasm.ts): the process-wide cache  *)
(* wasmModule, initWasm with its suspension points (the dynamic import of  *)
(* the bindings and the bindings' init call), the table it builds on the   *)
(* success and on the failure path, the WasmLinkAnalyzer wrapper and the   *)
(* diagnostic testWasmVsJavaScript; the demo components' mount effect,     *)
(* status line and processing functions (ComponentSpec); and the script    *)
(* functions the tables and components fall back to (FunctionSpec).        *)
(*                                                                         *)
(* The host is single-threaded: an action is one run-to-completion step of *)
(* the event loop (a call up to its first await, or the continuation after *)
(* an awaited promise settles).  Strings are sequences of one-character    *)
(* strings.                                                                *)
(***************************************************************************)
EXTENDS Integers, Sequences, FiniteSets, TLC

\* Number of initWasm invocations a behaviour makes.
MaxCalls == 2

Calls == 1..MaxCalls

\* Number of invocations of a component's run handler in a behaviour.
MaxRuns == 2

Runs == 1..MaxRuns

\* Number of benchmark runs in a behaviour (more than the list keeps).
MaxBenchmarks == 11

Benchmarks == 1..MaxBenchmarks

\* Length of the longest string given to DataValidator.
MaxData == 12

\* Longest generated input string of the script functions.
MaxLen == 3

VARIABLES
    hasWindow,       \* typeof window !== 'undefined'
    bindingExports,  \* the operation names /link/link.js exports
    wasmModule,      \* the module-level cache
    nextId,          \* identity of the next object literal
    attempts,        \* load attempts started (dynamic imports issued)
    cacheWrites,     \* assignments made to wasmModule
    pc,              \* per call: where the async function is
    path,            \* per call: the wasmPath argument
    via,             \* per call: the branch that completed it
    lastFailure,     \* what the outer catch last caught
    result,          \* per call: the value the promise resolved with
    lastOp,          \* outcome of the last operation called
    componentWasm,   \* per mounted component: its wasmModule state (useState)
    ui,              \* a component with an input field: input, results, loading, runs
    bench,           \* PerformanceBenchmark: results list, loading, runs
    build            \* LibraryBuilder.build: the steps run and the exit code

vars == <<hasWindow, bindingExports, wasmModule, nextId, attempts, cacheWrites,
          pc, path, via, lastFailure, result, lastOp, componentWasm, ui, bench, build>>

----------------------------------------------------------------------------
\* Strings

UpperAlpha == {"A", "B", "C", "D", "E", "F", "G", "H", "I", "J", "K", "L", "M",
               "N", "O", "P", "Q", "R", "S", "T", "U", "V", "W", "X", "Y", "Z"}

LowerAlpha == {"a", "b", "c", "d", "e", "f", "g", "h", "i", "j", "k", "l", "m",
               "n", "o", "p", "q", "r", "s", "t", "u", "v", "w", "x", "y", "z"}

Digits == {"0", "1", "2", "3", "4", "5", "6", "7", "8", "9"}

StartsWith(s, p) == Len(s) >= Len(p) /\ SubSeq(s, 1, Len(p)) = p

HttpPrefix == <<"h", "t", "t", "p", ":", "/", "/">>

HttpsPrefix == <<"h", "t", "t", "p", "s", ":", "/", "/">>

\* JavaScript values of mixed type, tagged so that === is record equality.
BoolV(b) == [t |-> "boolean", b |-> b]

StrV(s) == [t |-> "string", s |-> s]

UndefinedV == [t |-> "undefined"]

NullV == [t |-> "null"]

NotAvailable == StrV(<<"N", "/", "A">>)

DefaultWasmPath == "/link/link_bg.wasm"

OtherWasmPath == "/other/link_bg.wasm"

Paths == {DefaultWasmPath, OtherWasmPath}

NoPath == ""

\* The URLs the diagnostic is run on.
Urls == { <<"h", "t", "t", "p", "s", ":", "/", "/", "e">>, <<"/", "p">> }

----------------------------------------------------------------------------
\* Tables

BasicOps == {"is_external", "is_internal", "normalize_url", "get_protocol",
             "is_secure"}

OptionalOps == {"validate_url", "get_url_domain", "extract_email_addresses",
                "count_grapheme_clusters", "format_timestamp",
                "days_between_dates", "vector_magnitude", "matrix_determinant",
                "hash_sha256", "generate_uuid", "analyze_link",
                "batch_analyze_links", "benchmark_operations"}

Vocabulary == BasicOps \cup OptionalOps

\* Builds of the compiled module: what the bindings may export.
ExportSets == { {}, BasicOps \ {"is_internal"}, Vocabulary }

NULL == [id |-> 0, kind |-> "null"]

\* No component of the kind is on the page; no build was started.
NoComponent == [component |-> "none"]

NotStarted == [state |-> "not started"]

\* An entry is "wasm" (the bindings' export), "js" (a script function of
\* the bridge) or "undef" (the property is undefined).
ModuleWrapperEntry(exports, name) == IF name \in exports THEN "wasm" ELSE "undef"

ModuleWrapper(id, exports) ==
    [id |-> id, kind |-> "module",
     ops |-> [name \in Vocabulary |-> ModuleWrapperEntry(exports, name)]]

FallbackEntry(name) == IF name \in BasicOps THEN "js" ELSE "undef"

FallbackTable(id) ==
    [id |-> id, kind |-> "script",
     ops |-> [name \in Vocabulary |-> FallbackEntry(name)]]

----------------------------------------------------------------------------
\* initWasm

Init ==
    /\ hasWindow \in BOOLEAN
    /\ bindingExports \in ExportSets
    /\ wasmModule = NULL
    /\ nextId = 1
    /\ attempts = 0
    /\ cacheWrites = 0
    /\ pc = [c \in Calls |-> "idle"]
    /\ path = [c \in Calls |-> NoPath]
    /\ via = [c \in Calls |-> "none"]
    /\ lastFailure = "none"
    /\ result = [c \in Calls |-> NULL]
    /\ lastOp = [op |-> "none"]
    /\ componentWasm = [c \in Calls |-> NULL]
    /\ ui = NoComponent
    /\ bench = NoComponent
    /\ build = NotStarted

\* A cache that answers only for the path of the first call.
CacheHitSamePath(p) == wasmModule # NULL /\ p = path[1]

\* A cache that does not count a table built by the catch block.
CacheHitModuleOnly(p) == wasmModule # NULL /\ wasmModule.kind = "module"

\* if (wasmModule) at the head of initWasm.
CacheHit(p) == wasmModule # NULL

\* return wasmModule of the cache branch: nothing is written.
CachedReturn ==
    [status |-> "resolved", table |-> wasmModule, cache |-> wasmModule,
     wrote |-> FALSE]

\* An outer catch that logs and lets the error go on to the caller.
OuterCatchRethrows(id) ==
    [status |-> "rejected", table |-> NULL, cache |-> wasmModule, wrote |-> FALSE]

\* An outer catch that clears the cache before handing out the script table.
OuterCatchClearsCache(id) ==
    [status |-> "resolved", table |-> FallbackTable(id), cache |-> NULL,
     wrote |-> TRUE]

\* The outer catch: the failure is logged, the table of script functions
\* is assigned to the cache and returned.
OuterCatch(id) ==
    [status |-> "resolved", table |-> FallbackTable(id),
     cache |-> FallbackTable(id), wrote |-> TRUE]

\* The inner catch logs and re-throws into the outer catch.
BindingCatch(id) == OuterCatch(id)

\* The try/catch around the functionality tests: whether an exception of a
\* tested export leaves the block.
SelfTestEscapes(testThrows) == FALSE

\* The continuation after the bindings' init resolved: the wrapper is
\* assigned to the cache, the functionality tests run, the wrapper is returned.
LoadSucceeded(id, exports, testThrows) ==
    IF SelfTestEscapes(testThrows)
    THEN BindingCatch(id)
    ELSE [status |-> "resolved", table |-> ModuleWrapper(id, exports),
          cache |-> ModuleWrapper(id, exports), wrote |-> TRUE]

\* The async function of call c settles with completion record r.
Finish(c, r, how, error) ==
    /\ pc' = [pc EXCEPT ![c] = r.status]
    /\ result' = [result EXCEPT ![c] = r.table]
    /\ via' = [via EXCEPT ![c] = how]
    /\ lastFailure' = IF how = "failed" THEN error ELSE lastFailure
    /\ wasmModule' = r.cache
    /\ nextId' = IF r.wrote THEN nextId + 1 ELSE nextId
    /\ cacheWrites' = IF r.wrote THEN cacheWrites + 1 ELSE cacheWrites

\* An initWasm without the test for window.
WindowNotTested == FALSE

\* typeof window === 'undefined': the function throws 'WASM can only be
\* loaded in browser environment' into its outer catch.
NoWindow == ~hasWindow

\* initWasm(p) up to its first await (or to its return when there is none).
InitWasmCall(c, p) ==
    /\ pc[c] = "idle"
    /\ \A d \in Calls : d < c => pc[d] # "idle"
    /\ path' = [path EXCEPT ![c] = p]
    /\ IF CacheHit(p)
       THEN /\ Finish(c, CachedReturn, "cached", "none")
            /\ UNCHANGED attempts
       ELSE IF NoWindow
       THEN /\ Finish(c, OuterCatch(nextId), "failed", "no window")
            /\ UNCHANGED attempts
       ELSE /\ pc' = [pc EXCEPT ![c] = "awaitImport"]
            /\ attempts' = attempts + 1
            /\ UNCHANGED <<wasmModule, nextId, cacheWrites, via, lastFailure, result>>
    /\ UNCHANGED <<hasWindow, bindingExports, lastOp, componentWasm, ui, bench, build>>

\* The dynamic import settles; when it resolved, wasmBindings.default is
\* called, which may throw at once or return a pending promise.
ImportSettles(c, importOk, initThrows) ==
    /\ pc[c] = "awaitImport"
    /\ IF importOk /\ ~initThrows
       THEN /\ pc' = [pc EXCEPT ![c] = "awaitInit"]
            /\ UNCHANGED <<wasmModule, nextId, cacheWrites, via, lastFailure, result>>
       ELSE Finish(c, BindingCatch(nextId), "failed",
                   IF importOk THEN "init threw" ELSE "import rejected")
    /\ UNCHANGED <<hasWindow, bindingExports, attempts, path, lastOp, componentWasm, ui, bench, build>>

\* The promise of wasmBindings.default settles.
InitSettles(c, initOk, testThrows) ==
    /\ pc[c] = "awaitInit"
    /\ IF initOk
       THEN Finish(c, LoadSucceeded(nextId, bindingExports, testThrows), "loaded", "none")
       ELSE Finish(c, BindingCatch(nextId), "failed", "init rejected")
    /\ UNCHANGED <<hasWindow, bindingExports, attempts, path, lastOp, componentWasm, ui, bench, build>>

----------------------------------------------------------------------------
\* The script functions of the bridge

\* href.startsWith('http://') || href.startsWith('https://')
JsIsExternal(href) == StartsWith(href, HttpPrefix) \/ StartsWith(href, HttpsPrefix)

\* An is_internal that tests one of the two prefixes.
IsInternalHttpOnly(href) == ~StartsWith(href, HttpPrefix)

\* is_internal of the fallback table
FallbackIsInternal(href) ==
    ~StartsWith(href, HttpPrefix) /\ ~StartsWith(href, HttpsPrefix)

\* The lengths k such that url matches /^([a-z][a-z0-9+.-]*):\/\// with a
\* scheme of k characters (at most one, ':' not being a scheme character).
SchemeLengths(url) ==
    { k \in 1..(Len(url) - 3) :
        /\ url[1] \in LowerAlpha
        /\ \A i \in 2..k : url[i] \in LowerAlpha \cup Digits \cup {"+", ".", "-"}
        /\ SubSeq(url, k + 1, k + 3) = <<":", "/", "/">> }

\* match ? match[1] : noMatch
ProtocolMatch(url, noMatch) ==
    IF SchemeLengths(url) = {}
    THEN noMatch
    ELSE StrV(SubSeq(url, 1, CHOOSE k \in SchemeLengths(url) : TRUE))

\* get_protocol of the fallback table: undefined when nothing matches.
FallbackGetProtocol(url) == ProtocolMatch(url, UndefinedV)

\* get_protocol of testWasmVsJavaScript's jsFallback: null when nothing matches.
JsFallbackGetProtocol(url) == ProtocolMatch(url, NullV)

\* get_protocol of LinkAnalyzer's fallbackAnalyzer: null when nothing matches.
AnalyzerGetProtocol(url) == ProtocolMatch(url, NullV)

ProtocolImpls == {"bridge", "LinkAnalyzer", "jsFallback"}

GetProtocol(impl, url) ==
    CASE impl = "bridge" -> FallbackGetProtocol(url)
      [] impl = "LinkAnalyzer" -> AnalyzerGetProtocol(url)
      [] impl = "jsFallback" -> JsFallbackGetProtocol(url)

\* The characters input strings are generated from: a letter, white space,
\* the path separator, the fragment mark and the dot.
Chars == {"a", " ", "/", "#", "."}

Strings == UNION { [1..k -> Chars] : k \in 0..MaxLen }

\* String.prototype.trim: the white space at both ends is removed.
LeadingSpaces(s) ==
    CHOOSE k \in 0..Len(s) :
        /\ \A i \in 1..k : s[i] = " "
        /\ k < Len(s) => s[k + 1] # " "

TrailingSpaces(s) ==
    CHOOSE k \in 0..Len(s) :
        /\ \A i \in (Len(s) - k + 1)..Len(s) : s[i] = " "
        /\ k < Len(s) => s[Len(s) - k] # " "

Trim(s) ==
    IF LeadingSpaces(s) = Len(s)
    THEN << >>
    ELSE SubSeq(s, LeadingSpaces(s) + 1, Len(s) - TrailingSpaces(s))

\* s.replace(/\/+$/, ''): the run of slashes at the end is removed.
TrailingSlashes(s) ==
    CHOOSE k \in 0..Len(s) :
        /\ \A i \in (Len(s) - k + 1)..Len(s) : s[i] = "/"
        /\ k < Len(s) => s[Len(s) - k] # "/"

StripTrailingSlashes(s) == SubSeq(s, 1, Len(s) - TrailingSlashes(s))

\* s.indexOf(ch), counting from 1; 0 when ch does not occur.
IndexOf(s, ch) ==
    IF \E i \in 1..Len(s) : s[i] = ch
    THEN CHOOSE i \in 1..Len(s) : s[i] = ch /\ \A j \in 1..(i - 1) : s[j] # ch
    ELSE 0

\* normalize_url of the bridge's fallback table.
FallbackNormalizeUrl(url) == StripTrailingSlashes(Trim(url))

\* normalize_url of LinkAnalyzer's fallbackAnalyzer: the same, then the
\* string is cut at the first '#'.
AnalyzerNormalizeUrl(url) ==
    LET normalized == StripTrailingSlashes(Trim(url))
        hashIndex == IndexOf(normalized, "#")
    IN  IF hashIndex # 0 THEN SubSeq(normalized, 1, hashIndex - 1) ELSE normalized

NormalizeImpls == {"bridge", "LinkAnalyzer"}

NormalizeUrl(impl, url) ==
    IF impl = "bridge" THEN FallbackNormalizeUrl(url) ELSE AnalyzerNormalizeUrl(url)

\* 'HTTP://EXAMPLE.COM/a//b/../c/'
ScenarioUrl ==
    <<"H", "T", "T", "P", ":", "/", "/", "E", "X", "A", "M", "P", "L", "E",
      ".", "C", "O", "M", "/", "a", "/", "/", "b", "/", ".", ".", "/", "c",
      "/">>

\* 'http://example.com/a//b/../c/'
LowerScenarioUrl ==
    <<"h", "t", "t", "p", ":", "/", "/", "e", "x", "a", "m", "p", "l", "e",
      ".", "c", "o", "m", "/", "a", "/", "/", "b", "/", ".", ".", "/", "c",
      "/">>

\* s.split(sep) for a one-character separator.
RECURSIVE SplitOn(_, _)
SplitOn(s, sep) ==
    IF IndexOf(s, sep) = 0
    THEN <<s>>
    ELSE <<SubSeq(s, 1, IndexOf(s, sep) - 1)>>
         \o SplitOn(SubSeq(s, IndexOf(s, sep) + 1, Len(s)), sep)

\* new URL(url) of the host, for the inputs used here: scheme://host
\* followed by nothing or by a path of letters, dots and slashes (no query,
\* no fragment, no white space, no escapes).  Any string without a scheme
\* makes the constructor throw.
CanParse(url) ==
    LET colon == IndexOf(url, ":")
    IN  /\ colon >= 2
        /\ url[1] \in LowerAlpha \cup UpperAlpha
        /\ \A i \in 2..(colon - 1) :
               url[i] \in LowerAlpha \cup UpperAlpha \cup Digits \cup {"+", ".", "-"}
        /\ Len(url) >= colon + 3
        /\ SubSeq(url, colon + 1, colon + 2) = <<"/", "/">>
        /\ url[colon + 3] # "/"

\* What follows the first slash after the host ('' when there is none).
RawPath(url) ==
    LET afterScheme == SubSeq(url, IndexOf(url, ":") + 3, Len(url))
        slash == IndexOf(afterScheme, "/")
    IN  IF slash = 0 THEN << >> ELSE SubSeq(afterScheme, slash + 1, Len(afterScheme))

\* A path shortening that leaves the path as it is.
KeepPath(segments) == segments

\* The URL parser's "shorten a path": the last segment, if any, is removed.
ShortenPath(segments) ==
    IF segments = << >> THEN segments ELSE SubSeq(segments, 1, Len(segments) - 1)

\* The URL parser's path state over the raw segments: '..' shortens the
\* path, '.' is skipped (either leaves an empty segment when it comes last),
\* every other segment is appended.
RECURSIVE ResolveDotSegments(_, _)
ResolveDotSegments(raw, segments) ==
    IF raw = << >> THEN segments
    ELSE LET seg == Head(raw)
             last == Len(raw) = 1
             next == IF seg = <<".", ".">>
                     THEN IF last THEN Append(ShortenPath(segments), << >>)
                                  ELSE ShortenPath(segments)
                     ELSE IF seg = <<".">>
                     THEN IF last THEN Append(segments, << >>) ELSE segments
                     ELSE Append(segments, seg)
         IN  ResolveDotSegments(Tail(raw), next)

\* The serialisation of a path: every segment preceded by a slash.
RECURSIVE JoinPath(_)
JoinPath(segments) ==
    IF segments = << >> THEN << >>
    ELSE <<"/">> \o Head(segments) \o JoinPath(Tail(segments))

\* new URL(url).pathname
Pathname(url) == JoinPath(ResolveDotSegments(SplitOn(RawPath(url), "/"), << >>))

\* .filter(segment => segment.length > 0)
NonEmpty(segments) == SelectSeq(segments, LAMBDA seg : Len(seg) > 0)

\* fallbackParser.get_path_segments: [] when new URL throws.
GetPathSegments(url) ==
    IF CanParse(url) THEN NonEmpty(SplitOn(Pathname(url), "/")) ELSE << >>

PathChars == {"a", "/", "."}

\* 'http://h' followed by nothing or by a generated path.
PathUrls ==
    { <<"h", "t", "t", "p", ":", "/", "/", "h">> \o p :
        p \in { s \in Strings : /\ \A i \in 1..Len(s) : s[i] \in PathChars
                                /\ s # << >> => s[1] = "/" } }

\* The strings the script functions are called on.
Inputs == Strings \cup PathUrls \cup {ScenarioUrl, LowerScenarioUrl} \cup Urls

\* A script function is about to be called on a string.
FunctionInit ==
    /\ hasWindow = TRUE
    /\ bindingExports = Vocabulary
    /\ wasmModule = NULL
    /\ nextId = 1
    /\ attempts = 0
    /\ cacheWrites = 0
    /\ pc = [c \in Calls |-> "idle"]
    /\ path = [c \in Calls |-> NoPath]
    /\ via = [c \in Calls |-> "none"]
    /\ lastFailure = "none"
    /\ result = [c \in Calls |-> NULL]
    /\ lastOp \in { [op |-> "input", input |-> s] : s \in Inputs }
    /\ componentWasm = [c \in Calls |-> NULL]
    /\ ui = NoComponent
    /\ bench = NoComponent
    /\ build = NotStarted

\* normalize_url(url), and normalize_url applied to what it returned.
CallNormalizeUrl(impl) ==
    /\ lastOp.op = "input"
    /\ lastOp' = [op |-> "normalize_url", impl |-> impl, input |-> lastOp.input,
                  output |-> NormalizeUrl(impl, lastOp.input),
                  again |-> NormalizeUrl(impl, NormalizeUrl(impl, lastOp.input))]
    /\ UNCHANGED <<hasWindow, bindingExports, wasmModule, nextId, attempts,
                   cacheWrites, pc, path, via, lastFailure, result, componentWasm, ui, bench, build>>

\* get_protocol(url) of a script table.
CallGetProtocol(impl) ==
    /\ lastOp.op = "input"
    /\ lastOp' = [op |-> "get_protocol", impl |-> impl, input |-> lastOp.input,
                  output |-> GetProtocol(impl, lastOp.input)]
    /\ UNCHANGED <<hasWindow, bindingExports, wasmModule, nextId, attempts,
                   cacheWrites, pc, path, via, lastFailure, result, componentWasm, ui, bench, build>>

\* is_external(href) and is_internal(href) of the fallback table.
CallClassify ==
    /\ lastOp.op = "input"
    /\ lastOp' = [op |-> "classify", input |-> lastOp.input,
                  external |-> JsIsExternal(lastOp.input),
                  internal |-> FallbackIsInternal(lastOp.input)]
    /\ UNCHANGED <<hasWindow, bindingExports, wasmModule, nextId, attempts,
                   cacheWrites, pc, path, via, lastFailure, result,
                   componentWasm, ui, bench, build>>

\* get_path_segments(url) of UrlTools' fallbackParser.
CallGetPathSegments ==
    /\ lastOp.op = "input"
    /\ lastOp' = [op |-> "get_path_segments", input |-> lastOp.input,
                  output |-> GetPathSegments(lastOp.input)]
    /\ UNCHANGED <<hasWindow, bindingExports, wasmModule, nextId, attempts,
                   cacheWrites, pc, path, via, lastFailure, result, componentWasm, ui, bench, build>>

\* text.charCodeAt(i) for the generated characters.
CharCode(ch) ==
    CASE ch = "a" -> 97
      [] ch = " " -> 32
      [] ch = "/" -> 47
      [] ch = "#" -> 35
      [] ch = "." -> 46

HexDigits == <<"0", "1", "2", "3", "4", "5", "6", "7", "8", "9",
               "a", "b", "c", "d", "e", "f">>

\* n.toString(16) for n >= 0.
RECURSIVE ToHex(_)
ToHex(n) ==
    IF n < 16 THEN <<HexDigits[n + 1]>>
    ELSE Append(ToHex(n \div 16), HexDigits[(n % 16) + 1])

\* The loop of simple_hash: hash = ((hash << 5) - hash) + char; hash & hash.
\* On the generated inputs the value stays below 2^31, where the conversion
\* to a 32-bit integer leaves it as it is.
RECURSIVE HashLoop(_, _)
HashLoop(text, hash) ==
    IF text = << >> THEN hash
    ELSE HashLoop(Tail(text), (hash * 32 - hash) + CharCode(Head(text)))

\* fallbackProcessor.simple_hash: Math.abs(hash).toString(16)
SimpleHash(text) ==
    LET hash == HashLoop(text, 0)
    IN  ToHex(IF hash < 0 THEN 0 - hash ELSE hash)

CallSimpleHash ==
    /\ lastOp.op = "input"
    /\ \A i \in 1..Len(lastOp.input) : lastOp.input[i] \in Chars
    /\ lastOp' = [op |-> "simple_hash", input |-> lastOp.input,
                  output |-> SimpleHash(lastOp.input)]
    /\ UNCHANGED <<hasWindow, bindingExports, wasmModule, nextId, attempts,
                   cacheWrites, pc, path, via, lastFailure, result, componentWasm, ui, bench, build>>

----------------------------------------------------------------------------
\* TextProcessor: fallbackProcessor and processText

\* \w of a regular expression.
IsWordChar(ch) == ch \in LowerAlpha \cup UpperAlpha \cup Digits \cup {"_"}

UpperSeq == <<"A", "B", "C", "D", "E", "F", "G", "H", "I", "J", "K", "L", "M",
              "N", "O", "P", "Q", "R", "S", "T", "U", "V", "W", "X", "Y", "Z">>

LowerSeq == <<"a", "b", "c", "d", "e", "f", "g", "h", "i", "j", "k", "l", "m",
              "n", "o", "p", "q", "r", "s", "t", "u", "v", "w", "x", "y", "z">>

\* text.toLowerCase()
ToLowerCase(text) ==
    [i \in 1..Len(text) |->
        IF text[i] \in UpperAlpha
        THEN LowerSeq[CHOOSE k \in 1..Len(UpperSeq) : UpperSeq[k] = text[i]]
        ELSE text[i]]

\* text.replace(/c+/g, r): every run of the character c becomes r.
RECURSIVE ReplaceRuns(_, _, _)
ReplaceRuns(text, c, r) ==
    IF text = << >> THEN << >>
    ELSE IF Head(text) # c THEN <<Head(text)>> \o ReplaceRuns(Tail(text), c, r)
    ELSE IF Len(text) >= 2 /\ text[2] = c THEN ReplaceRuns(Tail(text), c, r)
    ELSE r \o ReplaceRuns(Tail(text), c, r)

\* count_words: text.trim().split(/\s+/).filter(word => word.length > 0).length
CountWords(text) ==
    Len(NonEmpty(SplitOn(ReplaceRuns(Trim(text), " ", <<" ">>), " ")))

\* clean_text: text.replace(/[^\w\s]/gi, '').replace(/\s+/g, ' ').trim()
CleanText(text) ==
    Trim(ReplaceRuns(SelectSeq(text, LAMBDA ch : IsWordChar(ch) \/ ch = " "),
                     " ", <<" ">>))

\* slugify: lower case, [^\w\s-] removed, white space runs to '-', runs of
\* '-' to one '-', trim.
Slugify(text) ==
    Trim(ReplaceRuns(
           ReplaceRuns(
             SelectSeq(ToLowerCase(text),
                       LAMBDA ch : IsWordChar(ch) \/ ch = " " \/ ch = "-"),
             " ", <<"-">>),
           "-", <<"-">>))

\* The two table entries processText reads.
TextOps == {"count_grapheme_clusters", "hash_sha256"}

\* The tables a TextProcessor can hold: none yet, the script table, or the
\* wrapper of a module build exporting some of the two entries.
TextTables ==
    {NULL, FallbackTable(1)} \cup { ModuleWrapper(1, exports) : exports \in SUBSET TextOps }

\* What the module's exports may do when called (the module is not part of
\* this repository): count, return a hash or the empty string, or throw.
WasmTextAnswers == [count : {0, MaxLen}, hash : {<< >>, <<"w">>}, throws : BOOLEAN]

\* A processText that calls the two entries without testing them.
TextThrowsUnguarded(table, wasm) ==
    /\ table # NULL
    /\ \/ \E name \in TextOps : table.ops[name] = "undef"
       \/ wasm.throws

\* Whether the try block of processText throws: only an export that is
\* called can; the script functions are total.
TextThrows(table, wasm) ==
    /\ table # NULL
    /\ wasm.throws
    /\ \E name \in TextOps : table.ops[name] = "wasm"

\* processText(inputText) with the component's wasmModule state = table.
ProcessText(table, text, wasm) ==
    IF TextThrows(table, wasm)
    THEN [outcome |-> "error",
          wordCount |-> 0,
          characterCount |-> Len(text),
          cleanText |-> text,
          slugified |-> ReplaceRuns(ToLowerCase(text), " ", <<"-">>),
          hashValue |-> <<"e", "r", "r", "o", "r">>]
    ELSE IF table # NULL
    THEN [outcome |-> "record",
          wordCount |-> CountWords(text),
          characterCount |->
              IF table.ops["count_grapheme_clusters"] # "undef"
              THEN wasm.count ELSE Len(text),
          cleanText |-> CleanText(text),
          slugified |-> Slugify(text),
          hashValue |->
              IF table.ops["hash_sha256"] # "undef" /\ wasm.hash # << >>
              THEN wasm.hash ELSE SimpleHash(text)]
    ELSE [outcome |-> "record",
          wordCount |-> CountWords(text),
          characterCount |-> Len(text),
          cleanText |-> CleanText(text),
          slugified |-> Slugify(text),
          hashValue |-> SimpleHash(text)]

CallProcessText(table, wasm) ==
    /\ lastOp.op = "input"
    /\ \A i \in 1..Len(lastOp.input) : lastOp.input[i] \in Chars
    /\ lastOp' = [op |-> "processText", input |-> lastOp.input, table |-> table,
                  threw |-> TextThrows(table, wasm),
                  results |-> ProcessText(table, lastOp.input, wasm)]
    /\ UNCHANGED <<hasWindow, bindingExports, wasmModule, nextId, attempts,
                   cacheWrites, pc, path, via, lastFailure, result, componentWasm, ui, bench, build>>

----------------------------------------------------------------------------
\* WasmLinkAnalyzer

Methods == {"analyzeUrl", "batchAnalyzeUrls", "extractEmailsFromText",
            "generateSecureHash", "generateId", "runPerformanceBenchmark"}

\* The table entry each method calls.
MethodOp(m) ==
    CASE m = "analyzeUrl" -> "analyze_link"
      [] m = "batchAnalyzeUrls" -> "batch_analyze_links"
      [] m = "extractEmailsFromText" -> "extract_email_addresses"
      [] m = "generateSecureHash" -> "hash_sha256"
      [] m = "generateId" -> "generate_uuid"
      [] m = "runPerformanceBenchmark" -> "benchmark_operations"

\* What each method's catch block returns.
SafeDefault(m) ==
    CASE m = "analyzeUrl" -> "null"
      [] m = "batchAnalyzeUrls" -> "[]"
      [] m = "extractEmailsFromText" -> "[]"
      [] m = "generateSecureHash" -> "null"
      [] m = "generateId" -> "random string"
      [] m = "runPerformanceBenchmark" -> "null"

\* createWasmAnalyzer after its await of initWasm: new WasmLinkAnalyzer(table)
\* stores the table the call resolved with.  The tables analyzers can hold:
AnalyzerTables == { result[c] : c \in { d \in Calls : pc[d] = "resolved" } }

\* Whether the call of a table entry throws: calling an undefined entry is
\* a TypeError, a defined one throws when its implementation does.
EntryThrows(entry) == IF entry = "undef" THEN {TRUE} ELSE BOOLEAN

\* A method without its try/catch.
AnalyzerMethodNoCatch(m, table, threw) ==
    [op |-> "invoke", method |-> m, table |-> table.kind,
     entry |-> table.ops[MethodOp(m)], threw |-> threw,
     outcome |-> IF threw THEN "threw" ELSE "value",
     value |-> table.ops[MethodOp(m)]]

\* try { return this.wasm.<op>(...) } catch { log; return <default> }
AnalyzerMethod(m, table, threw) ==
    IF threw
    THEN [op |-> "invoke", method |-> m, table |-> table.kind,
          entry |-> table.ops[MethodOp(m)], threw |-> TRUE,
          outcome |-> "default", value |-> SafeDefault(m)]
    ELSE [op |-> "invoke", method |-> m, table |-> table.kind,
          entry |-> table.ops[MethodOp(m)], threw |-> FALSE,
          outcome |-> "value", value |-> table.ops[MethodOp(m)]]

\* One method call on an analyzer holding table.
Invoke(table, m, threw) ==
    /\ threw \in EntryThrows(table.ops[MethodOp(m)])
    /\ lastOp' = AnalyzerMethod(m, table, threw)
    /\ UNCHANGED <<hasWindow, bindingExports, wasmModule, nextId, attempts,
                   cacheWrites, pc, path, via, lastFailure, result, componentWasm, ui, bench, build>>

----------------------------------------------------------------------------
\* testWasmVsJavaScript

\* What the compiled module's exports may do on a call (the module is not
\* part of this repository): answer, or throw.
WasmAnswers ==
    IF wasmModule # NULL /\ wasmModule.kind = "module"
    THEN [ext : BOOLEAN,
          proto : {UndefinedV, StrV(<<"h", "t", "t", "p", "s">>)},
          throws : BOOLEAN]
    ELSE {[ext |-> FALSE, proto |-> UndefinedV, throws |-> FALSE]}

JsResult(url) ==
    [is_external |-> BoolV(JsIsExternal(url)), get_protocol |-> JsFallbackGetProtocol(url)]

\* wasmModule.f ? wasmModule.f(url) : 'N/A' for the two entries read.
WasmResult(url, wasmExt, wasmProto) ==
    [is_external |->
        CASE wasmModule.ops["is_external"] = "undef" -> NotAvailable
          [] wasmModule.ops["is_external"] = "js" -> BoolV(JsIsExternal(url))
          [] wasmModule.ops["is_external"] = "wasm" -> BoolV(wasmExt),
     get_protocol |->
        CASE wasmModule.ops["get_protocol"] = "undef" -> NotAvailable
          [] wasmModule.ops["get_protocol"] = "js" -> FallbackGetProtocol(url)
          [] wasmModule.ops["get_protocol"] = "wasm" -> wasmProto]

\* A comparison of the two result objects by reference: two object literals
\* are never ===.
ResultsMatchByReference(w, js) == FALSE

\* resultsMatch: both fields are compared with ===.
ResultsMatch(w, js) ==
    w.is_external = js.is_external /\ w.get_protocol = js.get_protocol

\* The record testWasmVsJavaScript(url) returns, with the kind of table the
\* cache held during the call.
TestReport(url, wasm) ==
    IF wasmModule = NULL
    THEN [op |-> "test", url |-> url, table |-> wasmModule.kind,
          wasmResult |-> NullV, jsResult |-> JsResult(url),
          wasmWorking |-> FALSE, comparison |-> "not loaded"]
    ELSE IF wasm.throws /\ "wasm" \in {wasmModule.ops["is_external"],
                                       wasmModule.ops["get_protocol"]}
    THEN [op |-> "test", url |-> url, table |-> wasmModule.kind,
          wasmResult |-> NullV, jsResult |-> JsResult(url),
          wasmWorking |-> FALSE, comparison |-> "test failed"]
    ELSE LET w == WasmResult(url, wasm.ext, wasm.proto)
             working == w.is_external # NotAvailable /\ w.get_protocol # NotAvailable
             match == ResultsMatch(w, JsResult(url))
         IN  [op |-> "test", url |-> url, table |-> wasmModule.kind,
              wasmResult |-> w, jsResult |-> JsResult(url),
              wasmWorking |-> working,
              comparison |-> IF working /\ match THEN "match"
                             ELSE IF working THEN "differ"
                             ELSE "not available"]

TestWasmVsJavaScript(url, wasm) ==
    /\ lastOp' = TestReport(url, wasm)
    /\ UNCHANGED <<hasWindow, bindingExports, wasmModule, nextId, attempts,
                   cacheWrites, pc, path, via, lastFailure, result, componentWasm, ui, bench, build>>

----------------------------------------------------------------------------
\* The demo components (TextProcessor, LinkAnalyzer, UrlTools, DataValidator,
\* CryptoTools, PerformanceBenchmark).  Each mounts with the same effect, so
\* component c is the one whose mount effect made initWasm call c.

\* What loadWasm hands to setWasmModule once its await of initWasm() settled:
\* try { setWasmModule(await initWasm()) } catch { setWasmModule(null) }
LoadWasm(c) == IF pc[c] = "resolved" THEN result[c] ELSE NULL

\* The continuation of loadWasm after the await.
SetWasmModule(c) ==
    /\ pc[c] \in {"resolved", "rejected"}
    /\ componentWasm[c] = NULL
    /\ componentWasm' = [componentWasm EXCEPT ![c] = LoadWasm(c)]
    /\ UNCHANGED <<hasWindow, bindingExports, wasmModule, nextId, attempts,
                   cacheWrites, pc, path, via, lastFailure, result, lastOp,
                   ui, bench, build>>

\* The status line: {wasmModule ? <WASM-powered> : <JavaScript fallback>}
StatusIndicator(c) == IF componentWasm[c] # NULL THEN "wasm" ELSE "fallback"

\* The processing functions of the components.
Processors == {"processText", "analyzeUrl", "parseUrl", "validateData",
               "performCrypto"}

\* The table entries a processing function calls without testing them.
UnguardedOps(fn) ==
    IF fn = "analyzeUrl"
    THEN {"is_external", "is_secure", "get_protocol", "normalize_url"}
    ELSE {}

\* The table entries it calls only when they are defined
\* (wasmModule.f ? wasmModule.f(x) : <script function>).
GuardedOps(fn) ==
    CASE fn = "processText" -> {"count_grapheme_clusters", "hash_sha256"}
      [] fn = "analyzeUrl" -> {"is_internal"}
      [] fn = "parseUrl" -> {"get_protocol"}
      [] fn = "validateData" -> {"validate_url"}
      [] fn = "performCrypto" -> {"hash_sha256", "generate_uuid"}

\* The fields of the record the try block returns.
ResultFields(fn) ==
    CASE fn = "processText" ->
            {"wordCount", "characterCount", "cleanText", "slugified", "hashValue"}
      [] fn = "analyzeUrl" ->
            {"isExternal", "isSecure", "protocol", "isValid", "normalized"}
      [] fn = "parseUrl" ->
            {"isValid", "domain", "path", "query", "fragment", "port", "scheme",
             "pathSegments"}
      [] fn = "validateData" ->
            {"isValidEmail", "isValidUrl", "isValidIpAddress", "isValidUuid",
             "isValidJson", "isValidCreditCard", "isValidPhoneNumber",
             "passwordStrength", "containsSqlInjection", "containsXss",
             "dataType", "characterEncoding", "sanitizedData", "securityScore"}
      [] fn = "performCrypto" ->
            {"sha256Hash", "md5Hash", "base64Encoded", "base64Decoded",
             "urlEncoded", "urlDecoded", "uuid", "randomBytes", "timestamp",
             "entropy", "isBase64Valid", "hashComparison"}

\* The fields of the record the catch block returns.
DefaultFields(fn) ==
    CASE fn = "processText" ->
            {"wordCount", "characterCount", "cleanText", "slugified", "hashValue"}
      [] fn = "analyzeUrl" ->
            {"isExternal", "isSecure", "protocol", "isValid", "normalized"}
      [] fn = "parseUrl" ->
            {"isValid", "domain", "path", "query", "fragment", "port", "scheme",
             "pathSegments"}
      [] fn = "validateData" ->
            {"isValidEmail", "isValidUrl", "isValidIpAddress", "isValidUuid",
             "isValidJson", "isValidCreditCard", "isValidPhoneNumber",
             "passwordStrength", "containsSqlInjection", "containsXss",
             "dataType", "characterEncoding", "sanitizedData", "securityScore"}
      [] fn = "performCrypto" ->
            {"sha256Hash", "md5Hash", "base64Encoded", "base64Decoded",
             "urlEncoded", "urlDecoded", "uuid", "randomBytes", "timestamp",
             "entropy", "isBase64Valid", "hashComparison"}

\* Whether something inside the try block throws: calling an undefined entry
\* is a TypeError; an entry that is called, a script function or an awaited
\* promise may fail.
ProcessThrows(fn, table) ==
    IF table # NULL /\ \E name \in UnguardedOps(fn) : table.ops[name] = "undef"
    THEN {TRUE}
    ELSE BOOLEAN

\* A processing function without its try/catch.
ProcessingFunctionNoCatch(fn, table, threw) ==
    IF threw
    THEN [op |-> "process", fn |-> fn, table |-> table.kind, threw |-> TRUE,
          outcome |-> "threw", fields |-> {}]
    ELSE [op |-> "process", fn |-> fn, table |-> table.kind, threw |-> FALSE,
          outcome |-> "record", fields |-> ResultFields(fn)]

\* try { return { ... } } catch { log; return { <defaults> } }, the promise
\* of the async function resolving with the record.
ProcessingFunction(fn, table, threw) ==
    IF threw
    THEN [op |-> "process", fn |-> fn, table |-> table.kind, threw |-> TRUE,
          outcome |-> "default", fields |-> DefaultFields(fn)]
    ELSE [op |-> "process", fn |-> fn, table |-> table.kind, threw |-> FALSE,
          outcome |-> "record", fields |-> ResultFields(fn)]

\* Mounted component c runs its processing function on an input.
Process(c, fn, threw) ==
    /\ pc[c] # "idle"
    /\ threw \in ProcessThrows(fn, componentWasm[c])
    /\ lastOp' = ProcessingFunction(fn, componentWasm[c], threw)
    /\ UNCHANGED <<hasWindow, bindingExports, wasmModule, nextId, attempts,
                   cacheWrites, pc, path, via, lastFailure, result, componentWasm, ui, bench, build>>

----------------------------------------------------------------------------
\* DataValidator: fallbackValidator and validateData (the fields the
\* security score is computed from).

\* text.includes(pattern)
Includes(text, pattern) ==
    \E i \in 1..(Len(text) - Len(pattern) + 1) :
        SubSeq(text, i, i + Len(pattern) - 1) = pattern

\* /[a-z]/, /[A-Z]/, /\d/, /[^a-zA-Z\d]/ .test(password)
HasChar(password, class) == \E i \in 1..Len(password) : password[i] \in class

HasOtherChar(password) ==
    \E i \in 1..Len(password) :
        password[i] \notin LowerAlpha \cup UpperAlpha \cup Digits

\* fallbackValidator.calculatePasswordStrength
CalculatePasswordStrength(password) ==
    LET score == (IF Len(password) >= 8 THEN 20 ELSE 0)
               + (IF Len(password) >= 12 THEN 10 ELSE 0)
               + (IF HasChar(password, LowerAlpha) THEN 15 ELSE 0)
               + (IF HasChar(password, UpperAlpha) THEN 15 ELSE 0)
               + (IF HasChar(password, Digits) THEN 15 ELSE 0)
               + (IF HasOtherChar(password) THEN 25 ELSE 0)
    IN  IF score < 100 THEN score ELSE 100

SqlPatterns ==
    { <<"u", "n", "i", "o", "n">>, <<"s", "e", "l", "e", "c", "t">>,
      <<"i", "n", "s", "e", "r", "t">>, <<"u", "p", "d", "a", "t", "e">>,
      <<"d", "e", "l", "e", "t", "e">>, <<"d", "r", "o", "p">>, <<"-", "-">>,
      <<"/", "*">>, <<"*", "/">>, <<"x", "p", "_">> }

\* The third entry is matched as a literal string, as includes does.
XssPatterns ==
    { <<"<", "s", "c", "r", "i", "p", "t">>,
      <<"j", "a", "v", "a", "s", "c", "r", "i", "p", "t", ":">>,
      <<"o", "n", "(", "l", "o", "a", "d", "|", "c", "l", "i", "c", "k", "|",
        "m", "o", "u", "s", "e", "o", "v", "e", "r", ")">>,
      <<"e", "v", "a", "l", "(">>, <<"a", "l", "e", "r", "t", "(">> }

\* fallbackValidator.detectSqlInjection
DetectSqlInjection(input) ==
    \E pattern \in SqlPatterns : Includes(ToLowerCase(input), pattern)

\* fallbackValidator.detectXss
DetectXss(input) ==
    \E pattern \in XssPatterns : Includes(ToLowerCase(input), pattern)

\* A penalty that does not look at the length of the input.
WeakPasswordAnyLength(passwordStrength, inputData) == passwordStrength < 50

\* results.passwordStrength < 50 && inputData.length > 5
WeakPassword(passwordStrength, inputData) ==
    passwordStrength < 50 /\ Len(inputData) > 5

\* let securityScore = 100; ...; Math.max(0, securityScore)
SecurityScore(sql, xss, passwordStrength, inputData) ==
    LET securityScore == 100 - (IF sql THEN 40 ELSE 0) - (IF xss THEN 40 ELSE 0)
                             - (IF WeakPassword(passwordStrength, inputData)
                                THEN 20 ELSE 0)
    IN  IF securityScore > 0 THEN securityScore ELSE 0

\* The component's wasmModule state: none, the script table, a module
\* without or with validate_url.
ValidatorTables ==
    {NULL, FallbackTable(1), ModuleWrapper(1, {}), ModuleWrapper(1, {"validate_url"})}

\* Whether the try block of validateData throws: only the module's
\* validate_url can; the script validators are total on strings.
ValidateThrows(table, throws) ==
    table # NULL /\ table.ops["validate_url"] = "wasm" /\ throws

\* validateData(inputData) with the component's wasmModule state = table.
ValidateData(table, inputData, throws) ==
    IF ValidateThrows(table, throws)
    THEN [outcome |-> "error", passwordStrength |-> 0,
          containsSqlInjection |-> FALSE, containsXss |-> FALSE,
          securityScore |-> 0]
    ELSE [outcome |-> "record",
          passwordStrength |-> CalculatePasswordStrength(inputData),
          containsSqlInjection |-> DetectSqlInjection(inputData),
          containsXss |-> DetectXss(inputData),
          securityScore |-> SecurityScore(DetectSqlInjection(inputData),
                                          DetectXss(inputData),
                                          CalculatePasswordStrength(inputData),
                                          inputData)]

\* The strings of up to MaxData characters that repeat a pattern: one
\* character of each class, the shortest injection patterns, and the empty
\* pattern.
DataPatterns ==
    { <<"a">>, <<"A">>, <<"1">>, <<"-">>, <<"a", "A">>, <<"a", "1">>,
      <<"a", "_">>, <<"A", "1">>, <<"a", "A", "1">>, <<"a", "A", "1", "_">>,
      <<"D", "r", "o", "p", " ">>, <<"e", "v", "a", "l", "(">>,
      <<"E", "V", "A", "L", "(", "-", "-">>,
      <<"o", "n", "(", "l", "o", "a", "d", ")">> }

Repeat(pattern, n) == [i \in 1..n |-> pattern[((i - 1) % Len(pattern)) + 1]]

DataInputs == { Repeat(pattern, n) : pattern \in DataPatterns, n \in 0..MaxData }

\* validateData is about to be called on a string.
ValidatorInit ==
    /\ hasWindow = TRUE
    /\ bindingExports = Vocabulary
    /\ wasmModule = NULL
    /\ nextId = 1
    /\ attempts = 0
    /\ cacheWrites = 0
    /\ pc = [c \in Calls |-> "idle"]
    /\ path = [c \in Calls |-> NoPath]
    /\ via = [c \in Calls |-> "none"]
    /\ lastFailure = "none"
    /\ result = [c \in Calls |-> NULL]
    /\ lastOp \in { [op |-> "input", input |-> s] : s \in DataInputs }
    /\ componentWasm = [c \in Calls |-> NULL]
    /\ ui = NoComponent
    /\ bench = NoComponent
    /\ build = NotStarted

CallValidateData(table, throws) ==
    /\ lastOp.op = "input"
    /\ lastOp' = [op |-> "validateData", input |-> lastOp.input,
                  threw |-> ValidateThrows(table, throws),
                  results |-> ValidateData(table, lastOp.input, throws)]
    /\ UNCHANGED <<hasWindow, bindingExports, wasmModule, nextId, attempts,
                   cacheWrites, pc, path, via, lastFailure, result,
                   componentWasm, ui, bench, build>>

CallCalculatePasswordStrength ==
    /\ lastOp.op = "input"
    /\ lastOp' = [op |-> "calculatePasswordStrength", input |-> lastOp.input,
                  output |-> CalculatePasswordStrength(lastOp.input)]
    /\ UNCHANGED <<hasWindow, bindingExports, wasmModule, nextId, attempts,
                   cacheWrites, pc, path, via, lastFailure, result,
                   componentWasm, ui, bench, build>>

----------------------------------------------------------------------------
\* The components with an input field: its state (text, url or data),
\* results and loading, the run handler (handleProcess, handleAnalyze,
\* handleParse, handleValidate, handleCrypto) and handleInputChange.  An
\* action is one event handler, or the continuation of a run after its
\* await, running on the rendered state.

InputComponents == {"TextProcessor", "LinkAnalyzer", "UrlTools", "DataValidator",
                    "CryptoTools"}

\* The values typed into the field.
UiInputs == { << >>, <<" ">>, <<"a">>, <<"/">> }

\* The values the sample buttons of DataValidator and CryptoTools set (fixed
\* non-blank strings).
SampleInputs == { <<"a">> }

\* results === null
NoResults == [outcome |-> "null"]

\* The bridge and the other components at rest.
BridgeIdle ==
    /\ hasWindow = TRUE
    /\ bindingExports = Vocabulary
    /\ wasmModule = NULL
    /\ nextId = 1
    /\ attempts = 0
    /\ cacheWrites = 0
    /\ pc = [c \in Calls |-> "idle"]
    /\ path = [c \in Calls |-> NoPath]
    /\ via = [c \in Calls |-> "none"]
    /\ lastFailure = "none"
    /\ result = [c \in Calls |-> NULL]
    /\ lastOp = [op |-> "none"]
    /\ componentWasm = [c \in Calls |-> NULL]

\* useState(initialText), useState(null), useState(false)
HandlerInit ==
    /\ BridgeIdle
    /\ ui \in { [component |-> k, input |-> s, results |-> NoResults,
                  loading |-> FALSE, runs |-> [r \in Runs |-> [pc |-> "idle"]],
                  calls |-> 0, callbacks |-> 0, event |-> "none"] :
                 k \in InputComponents, s \in UiInputs }
    /\ bench = NoComponent
    /\ build = NotStarted

\* The runs suspended at their await.
InFlight == { r \in Runs : ui.runs[r].pc = "awaiting" }

\* performCrypto awaits crypto.subtle.digest, which the host completes in a
\* later task; the other processing functions contain no await, so their
\* promise is settled before the next event is dispatched.
SuspendsOnHost(component) == component = "CryptoTools"

\* Events are dispatched between tasks, never between the microtasks of one.
EventEnabled == SuspendsOnHost(ui.component) \/ InFlight = {}

\* A handleInputChange that leaves the results alone.
ResultsKept(results) == results

\* if (results) setResults(null)
ResultsAfterChange(results) == IF results # NoResults THEN NoResults ELSE results

\* handleInputChange: setText(e.target.value); if (results) setResults(null)
HandleInputChange(value) ==
    /\ ui # NoComponent
    /\ EventEnabled
    /\ value # ui.input
    /\ ui' = [ui EXCEPT !.input = value,
                        !.results = ResultsAfterChange(ui.results),
                        !.event = "change"]
    /\ UNCHANGED <<hasWindow, bindingExports, wasmModule, nextId, attempts,
                   cacheWrites, pc, path, via, lastFailure, result, lastOp,
                   componentWasm, bench, build>>

\* onClick={() => setData(<sample>)} of DataValidator and CryptoTools.
SampleClick(value) ==
    /\ ui # NoComponent
    /\ EventEnabled
    /\ ui.component \in {"DataValidator", "CryptoTools"}
    /\ value # ui.input
    /\ ui' = [ui EXCEPT !.input = value, !.event = "sample"]
    /\ UNCHANGED <<hasWindow, bindingExports, wasmModule, nextId, attempts,
                   cacheWrites, pc, path, via, lastFailure, result, lastOp,
                   componentWasm, bench, build>>

\* A guard that tests the input without trimming it.
IsEmpty(text) == text = << >>

\* !text.trim()
IsBlank(text) == Trim(text) = << >>

\* The run handler up to its await: if (!text.trim()) return;
\* setLoading(true); the processing function is called on the input.  (The
\* button bound to it is disabled while loading or while the input is blank;
\* the handler does not rely on that.)
RunHandler(r) ==
    /\ ui # NoComponent
    /\ EventEnabled
    /\ ui.runs[r].pc = "idle"
    /\ \A q \in Runs : q < r => ui.runs[q].pc # "idle"
    /\ IF IsBlank(ui.input)
       THEN ui' = [ui EXCEPT !.runs[r] = [pc |-> "returned"], !.event = "run"]
       ELSE ui' = [ui EXCEPT !.loading = TRUE,
                             !.calls = @ + 1,
                             !.runs[r] = [pc |-> "awaiting", input |-> ui.input],
                             !.event = "run"]
    /\ UNCHANGED <<hasWindow, bindingExports, wasmModule, nextId, attempts,
                   cacheWrites, pc, path, via, lastFailure, result, lastOp,
                   componentWasm, bench, build>>

\* The consumer callback: not given, returning or throwing.
CallbackOutcomes == {"absent", "returns", "throws"}

\* A handler that resets loading as the last statement of its try block.
LoadingWithoutFinally(callback) == callback = "throws"

\* finally { setLoading(false) }
LoadingAfterRun(callback) == FALSE

\* The continuation after the await: setResults(<record>); on...?.(<record>)
\* inside try, the catch block logging what the callback throws, then finally.
\* The record is the processing function's result for the input it was
\* called with, its default record when something inside it threw.
RunCompletes(r, threw, callback) ==
    /\ ui # NoComponent
    /\ ui.runs[r].pc = "awaiting"
    /\ ui' = [ui EXCEPT
                 !.results = [outcome |-> IF threw THEN "default" ELSE "record",
                              from |-> ui.runs[r].input],
                 !.callbacks = IF callback = "absent" THEN @ ELSE @ + 1,
                 !.loading = LoadingAfterRun(callback),
                 !.runs[r] = [pc |-> "done", input |-> ui.runs[r].input],
                 !.event = IF callback = "throws" THEN "callback threw" ELSE "completed"]
    /\ UNCHANGED <<hasWindow, bindingExports, wasmModule, nextId, attempts,
                   cacheWrites, pc, path, via, lastFailure, result, lastOp,
                   componentWasm, bench, build>>

----------------------------------------------------------------------------
\* PerformanceBenchmark: runBenchmark and clearResults.  A result is
\* identified by the number of the run that produced it.

\* useState<BenchmarkResults[]>([]), useState(false)
BenchmarkInit ==
    /\ BridgeIdle
    /\ ui = NoComponent
    /\ bench = [results |-> << >>, loading |-> FALSE,
                runs |-> [r \in Benchmarks |-> "idle"], event |-> "none"]
    /\ build = NotStarted

\* prev.slice(0, 9): the number of earlier results kept.
KeptResults == 9

\* array.slice(from, to)
Slice(array, from, to) ==
    SubSeq(array, from + 1, IF to < Len(array) THEN to ELSE Len(array))

\* An update that keeps every earlier result.
PrependToAll(prev, benchmarkResult) == <<benchmarkResult>> \o prev

\* prev => [benchmarkResult, ...prev.slice(0, 9)]
PrependResult(prev, benchmarkResult) ==
    <<benchmarkResult>> \o Slice(prev, 0, KeptResults)

\* runBenchmark up to its first await: the selected test is one of
\* benchmarkTests, so the early return is not taken; setLoading(true); the
\* 100 ms timer is started.  The button is disabled while loading.
RunBenchmark(r) ==
    /\ bench # NoComponent
    /\ ~bench.loading
    /\ bench.runs[r] = "idle"
    /\ \A q \in Benchmarks : q < r => bench.runs[q] # "idle"
    /\ bench' = [bench EXCEPT !.loading = TRUE, !.runs[r] = "js timer",
                              !.event = "run"]
    /\ UNCHANGED <<hasWindow, bindingExports, wasmModule, nextId, attempts,
                   cacheWrites, pc, path, via, lastFailure, result, lastOp,
                   componentWasm, ui, build>>

\* After the first timer the script test has run; with a module and a
\* wasmFunction the 50 ms timer is started.
BenchmarkAwaitsWasm(r) ==
    /\ bench # NoComponent
    /\ bench.runs[r] = "js timer"
    /\ bench' = [bench EXCEPT !.runs[r] = "wasm timer", !.event = "wasm timer"]
    /\ UNCHANGED <<hasWindow, bindingExports, wasmModule, nextId, attempts,
                   cacheWrites, pc, path, via, lastFailure, result, lastOp,
                   componentWasm, ui, build>>

\* What the rest of the try block does: a test function throws, or the
\* result is stored and the callback is absent, returns or throws.
BenchmarkOutcomes == {"test threw"} \cup CallbackOutcomes

\* The rest of runBenchmark: the measurements, setResults(prev => ...),
\* onBenchmark?.(benchmarkResult), the catch block, finally setLoading(false).
BenchmarkCompletes(r, outcome) ==
    /\ bench # NoComponent
    /\ bench.runs[r] \in {"js timer", "wasm timer"}
    /\ bench' = [bench EXCEPT
                    !.results = IF outcome = "test threw" THEN @
                                ELSE PrependResult(@, r),
                    !.loading = LoadingAfterRun(outcome),
                    !.runs[r] = "done",
                    !.event = IF outcome = "test threw" THEN "test threw"
                              ELSE IF outcome = "throws" THEN "callback threw"
                              ELSE "completed"]
    /\ UNCHANGED <<hasWindow, bindingExports, wasmModule, nextId, attempts,
                   cacheWrites, pc, path, via, lastFailure, result, lastOp,
                   componentWasm, ui, build>>

\* clearResults: setResults([])
ClearResults ==
    /\ bench # NoComponent
    /\ bench.results # << >>
    /\ bench' = [bench EXCEPT !.results = << >>, !.event = "clear"]
    /\ UNCHANGED <<hasWindow, bindingExports, wasmModule, nextId, attempts,
                   cacheWrites, pc, path, via, lastFailure, result, lastOp,
                   componentWasm, ui, build>>

----------------------------------------------------------------------------
\* scripts/build.ts: LibraryBuilder.build.  An action is one step of build;
\* the files found and the outcome of each command are the environment's.

\* The options after the constructor's defaults and parseArgs (verbose only
\* changes what is printed).
BuildOptions ==
    [clean : BOOLEAN, watch : BOOLEAN, analyze : BOOLEAN, typeCheck : BOOLEAN,
     lint : BOOLEAN, test : BOOLEAN, skipOptimization : BOOLEAN,
     skipWasm : BOOLEAN]

WasmCrates == <<"link", "utils", "url-tools">>

\* new LibraryBuilder(options).build() has been called; exit is the exit
\* code of the process, -1 while it has not exited.
BuildInit ==
    /\ BridgeIdle
    /\ ui = NoComponent
    /\ bench = NoComponent
    /\ build \in { [state |-> "prerequisites", options |-> o, ran |-> << >>,
                     exit |-> -1, failedCommands |-> {}, built |-> << >>] :
                    o \in BuildOptions }

\* A step is entered: the position and the list of steps run.
Enter(b, step) == [b EXCEPT !.ran = Append(@, step)]

\* process.exit(1)
Exit1(b) == [b EXCEPT !.state = "exited", !.exit = 1]

\* An exec whose catch block logs the failure and goes on.
ExecWithoutExit(b, command, ok, next) ==
    [b EXCEPT !.state = next,
              !.failedCommands = IF ok THEN @ ELSE @ \cup {command}]

\* exec(command): execSync; on failure log and process.exit(1).
Exec(b, command, ok, next) ==
    IF ok THEN [b EXCEPT !.state = next]
    ELSE Exit1([b EXCEPT !.failedCommands = @ \cup {command}])

\* checkPrerequisites: package.json, node_modules (pnpm install),
\* the required files, the wasm-pack probe (its failure sets skipWasm).
CheckPrerequisites(packageJson, nodeModules, installOk, requiredFiles, wasmPack) ==
    /\ build # NotStarted
    /\ build.state = "prerequisites"
    /\ LET b0 == Enter(build, "prerequisites")
           b1 == IF nodeModules THEN b0
                 ELSE Exec(b0, "pnpm install", installOk, b0.state)
           b2 == IF b1.options.skipWasm \/ wasmPack THEN b1
                 ELSE [b1 EXCEPT !.options.skipWasm = TRUE,
                                 !.failedCommands = @ \cup {"wasm-pack --version"}]
       IN  build' = IF ~packageJson THEN Exit1(b0)
                    ELSE IF b1.state = "exited" THEN b1
                    ELSE IF ~requiredFiles THEN Exit1(b1)
                    ELSE [b2 EXCEPT !.state = "clean"]
    /\ UNCHANGED <<hasWindow, bindingExports, wasmModule, nextId, attempts,
                   cacheWrites, pc, path, via, lastFailure, result, lastOp,
                   componentWasm, ui, bench>>

\* cleanDistFolder: nothing without the clean option or without dist; the
\* failure of rm -f is ignored; what rmSync throws reaches build's catch.
CleanDistFolder(distExists, rmOk, rmSyncOk) ==
    /\ build # NotStarted
    /\ build.state = "clean"
    /\ LET b0 == Enter(build, "clean")
       IN  build' = IF ~b0.options.clean \/ ~distExists
                    THEN [b0 EXCEPT !.state = "type-check"]
                    ELSE IF ~rmSyncOk THEN Exit1(b0)
                    ELSE [b0 EXCEPT !.state = "type-check",
                                    !.failedCommands =
                                        IF rmOk THEN @ ELSE @ \cup {"rm -f"}]
    /\ UNCHANGED <<hasWindow, bindingExports, wasmModule, nextId, attempts,
                   cacheWrites, pc, path, via, lastFailure, result, lastOp,
                   componentWasm, ui, bench>>

\* runTypeCheck
RunTypeCheck(ok) ==
    /\ build # NotStarted
    /\ build.state = "type-check"
    /\ LET b0 == Enter(build, "type-check")
       IN  build' = IF ~b0.options.typeCheck THEN [b0 EXCEPT !.state = "lint"]
                    ELSE Exec(b0, "pnpm type-check", ok, "lint")
    /\ UNCHANGED <<hasWindow, bindingExports, wasmModule, nextId, attempts,
                   cacheWrites, pc, path, via, lastFailure, result, lastOp,
                   componentWasm, ui, bench>>

\* runLinting
RunLinting(ok) ==
    /\ build # NotStarted
    /\ build.state = "lint"
    /\ LET b0 == Enter(build, "lint")
       IN  build' = IF ~b0.options.lint THEN [b0 EXCEPT !.state = "tests"]
                    ELSE Exec(b0, "pnpm lint", ok, "tests")
    /\ UNCHANGED <<hasWindow, bindingExports, wasmModule, nextId, attempts,
                   cacheWrites, pc, path, via, lastFailure, result, lastOp,
                   componentWasm, ui, bench>>

\* runTests
RunTests(ok) ==
    /\ build # NotStarted
    /\ build.state = "tests"
    /\ LET b0 == Enter(build, "tests")
       IN  build' = IF ~b0.options.test THEN [b0 EXCEPT !.state = "wasm"]
                    ELSE Exec(b0, "pnpm test --run", ok, "wasm")
    /\ UNCHANGED <<hasWindow, bindingExports, wasmModule, nextId, attempts,
                   cacheWrites, pc, path, via, lastFailure, result, lastOp,
                   componentWasm, ui, bench>>

\* What the loop of buildWasm finds for a crate: no Cargo.toml, a build
\* that succeeds or one that fails.
CrateOutcomes == {"missing", "built", "failed"}

\* The crates built before the first failing one, from crate i on.
RECURSIVE BuildCrates(_, _)
BuildCrates(crates, i) ==
    IF i > Len(WasmCrates) \/ crates[i] = "failed" THEN << >>
    ELSE IF crates[i] = "built" THEN <<WasmCrates[i]>> \o BuildCrates(crates, i + 1)
    ELSE BuildCrates(crates, i + 1)

\* buildWasm: skipped with skipWasm; a failing wasm-pack build exits.
BuildWasm(crates) ==
    /\ build # NotStarted
    /\ build.state = "wasm"
    /\ LET b0 == Enter(build, "wasm")
           b1 == [b0 EXCEPT !.built = BuildCrates(crates, 1)]
       IN  build' = IF b0.options.skipWasm THEN [b0 EXCEPT !.state = "library"]
                    ELSE IF \E i \in 1..Len(WasmCrates) : crates[i] = "failed"
                    THEN Exit1([b1 EXCEPT !.failedCommands = @ \cup {"wasm-pack build"}])
                    ELSE [b1 EXCEPT !.state = "library"]
    /\ UNCHANGED <<hasWindow, bindingExports, wasmModule, nextId, attempts,
                   cacheWrites, pc, path, via, lastFailure, result, lastOp,
                   componentWasm, ui, bench>>

\* buildLibrary: tsup, or tsup --watch, then the branch of build on watch.
BuildLibrary(ok) ==
    /\ build # NotStarted
    /\ build.state = "library"
    /\ LET b0 == Enter(build, "library")
       IN  build' = IF b0.options.watch
                    THEN Exec(b0, "tsup --watch", ok, "watch info")
                    ELSE Exec(b0, "tsup", ok, "optimize")
    /\ UNCHANGED <<hasWindow, bindingExports, wasmModule, nextId, attempts,
                   cacheWrites, pc, path, via, lastFailure, result, lastOp,
                   componentWasm, ui, bench>>

\* printWatchInfo, after which build returns.
PrintWatchInfo ==
    /\ build # NotStarted
    /\ build.state = "watch info"
    /\ build' = [Enter(build, "watch info") EXCEPT !.state = "returned"]
    /\ UNCHANGED <<hasWindow, bindingExports, wasmModule, nextId, attempts,
                   cacheWrites, pc, path, via, lastFailure, result, lastOp,
                   componentWasm, ui, bench>>

\* optimizeBuild: exits when dist or an essential file is missing.
OptimizeBuild(outputsExist) ==
    /\ build # NotStarted
    /\ build.state = "optimize"
    /\ LET b0 == Enter(build, "optimize")
       IN  build' = IF b0.options.skipOptimization \/ outputsExist
                    THEN [b0 EXCEPT !.state = "analyze"]
                    ELSE Exit1(b0)
    /\ UNCHANGED <<hasWindow, bindingExports, wasmModule, nextId, attempts,
                   cacheWrites, pc, path, via, lastFailure, result, lastOp,
                   componentWasm, ui, bench>>

\* analyzeBundle: only reads sizes; what statSync throws is caught.
AnalyzeBundle ==
    /\ build # NotStarted
    /\ build.state = "analyze"
    /\ build' = [Enter(build, "analyze") EXCEPT !.state = "summary"]
    /\ UNCHANGED <<hasWindow, bindingExports, wasmModule, nextId, attempts,
                   cacheWrites, pc, path, via, lastFailure, result, lastOp,
                   componentWasm, ui, bench>>

\* printBuildSummary, after which build returns.
PrintBuildSummary ==
    /\ build # NotStarted
    /\ build.state = "summary"
    /\ build' = [Enter(build, "summary") EXCEPT !.state = "returned"]
    /\ UNCHANGED <<hasWindow, bindingExports, wasmModule, nextId, attempts,
                   cacheWrites, pc, path, via, lastFailure, result, lastOp,
                   componentWasm, ui, bench>>

----------------------------------------------------------------------------
Next ==
    \/ \E c \in Calls, p \in Paths : InitWasmCall(c, p)
    \/ \E c \in Calls, importOk \in BOOLEAN, initThrows \in BOOLEAN :
          ImportSettles(c, importOk, initThrows)
    \/ \E c \in Calls, initOk \in BOOLEAN, testThrows \in BOOLEAN :
          InitSettles(c, initOk, testThrows)
    \/ \E table \in AnalyzerTables, m \in Methods, threw \in BOOLEAN :
          Invoke(table, m, threw)
    \/ \E url \in Urls, wasm \in WasmAnswers : TestWasmVsJavaScript(url, wasm)

Spec == Init /\ [][Next]_vars

\* The event loop runs the continuation of every settled promise.
FairSpec ==
    /\ Spec
    /\ \A c \in Calls :
          /\ WF_vars(\E ok \in BOOLEAN, t \in BOOLEAN : ImportSettles(c, ok, t))
          /\ WF_vars(\E ok \in BOOLEAN, t \in BOOLEAN : InitSettles(c, ok, t))

\* The components on a page: their mount effects and what runs after them.
ComponentNext ==
    \/ \E c \in Calls : InitWasmCall(c, DefaultWasmPath)
    \/ \E c \in Calls, importOk \in BOOLEAN, initThrows \in BOOLEAN :
          ImportSettles(c, importOk, initThrows)
    \/ \E c \in Calls, initOk \in BOOLEAN, testThrows \in BOOLEAN :
          InitSettles(c, initOk, testThrows)
    \/ \E c \in Calls : SetWasmModule(c)
    \/ \E c \in Calls, fn \in Processors, threw \in BOOLEAN : Process(c, fn, threw)

ComponentSpec == Init /\ [][ComponentNext]_vars

\* One script function is called on the input.
FunctionNext ==
    \/ \E impl \in NormalizeImpls : CallNormalizeUrl(impl)
    \/ \E impl \in ProtocolImpls : CallGetProtocol(impl)
    \/ CallGetPathSegments
    \/ CallSimpleHash
    \/ CallClassify
    \/ \E table \in TextTables, wasm \in WasmTextAnswers : CallProcessText(table, wasm)

FunctionSpec == FunctionInit /\ [][FunctionNext]_vars

\* A component with an input field in use.
HandlerNext ==
    \/ \E value \in UiInputs : HandleInputChange(value)
    \/ \E value \in SampleInputs : SampleClick(value)
    \/ \E r \in Runs : RunHandler(r)
    \/ \E r \in Runs, threw \in BOOLEAN, callback \in CallbackOutcomes :
          RunCompletes(r, threw, callback)

HandlerSpec == HandlerInit /\ [][HandlerNext]_vars

\* The promise a run awaits settles and the event loop runs the continuation.
HandlerFairSpec ==
    /\ HandlerSpec
    /\ \A r \in Runs :
          WF_vars(\E threw \in BOOLEAN, callback \in CallbackOutcomes :
                     RunCompletes(r, threw, callback))

\* PerformanceBenchmark in use.
BenchmarkNext ==
    \/ \E r \in Benchmarks : RunBenchmark(r)
    \/ \E r \in Benchmarks : BenchmarkAwaitsWasm(r)
    \/ \E r \in Benchmarks, outcome \in BenchmarkOutcomes :
          BenchmarkCompletes(r, outcome)
    \/ ClearResults

BenchmarkSpec == BenchmarkInit /\ [][BenchmarkNext]_vars

\* Any of the components with a run handler, with the promises and timers
\* their runs await settling.
RunnerInit == HandlerInit \/ BenchmarkInit

RunnerNext == HandlerNext \/ BenchmarkNext

RunnerFairSpec ==
    /\ RunnerInit /\ [][RunnerNext]_vars
    /\ \A r \in Runs :
          WF_vars(\E threw \in BOOLEAN, callback \in CallbackOutcomes :
                     RunCompletes(r, threw, callback))
    /\ WF_vars(\E r \in Benchmarks, outcome \in BenchmarkOutcomes :
                  BenchmarkCompletes(r, outcome))

\* DataValidator's validation of one string.
ValidatorNext ==
    \/ \E table \in ValidatorTables, throws \in BOOLEAN :
          CallValidateData(table, throws)
    \/ CallCalculatePasswordStrength

ValidatorSpec == ValidatorInit /\ [][ValidatorNext]_vars

\* One run of the build script.
BuildNext ==
    \/ \E packageJson \in BOOLEAN, nodeModules \in BOOLEAN, installOk \in BOOLEAN,
          requiredFiles \in BOOLEAN, wasmPack \in BOOLEAN :
          CheckPrerequisites(packageJson, nodeModules, installOk, requiredFiles,
                             wasmPack)
    \/ \E distExists \in BOOLEAN, rmOk \in BOOLEAN, rmSyncOk \in BOOLEAN :
          CleanDistFolder(distExists, rmOk, rmSyncOk)
    \/ \E ok \in BOOLEAN : RunTypeCheck(ok)
    \/ \E ok \in BOOLEAN : RunLinting(ok)
    \/ \E ok \in BOOLEAN : RunTests(ok)
    \/ \E crates \in [1..Len(WasmCrates) -> CrateOutcomes] : BuildWasm(crates)
    \/ \E ok \in BOOLEAN : BuildLibrary(ok)
    \/ PrintWatchInfo
    \/ \E outputsExist \in BOOLEAN : OptimizeBuild(outputsExist)
    \/ AnalyzeBundle
    \/ PrintBuildSummary

BuildSpec == BuildInit /\ [][BuildNext]_vars

----------------------------------------------------------------------------
\* Properties

Pending(c) == pc[c] \in {"awaitImport", "awaitInit"}

Resolved(c) == pc[c] = "resolved"

\* The call found the cache empty when it started.
StartedOnEmptyCache(c) == via[c] \in {"failed", "loaded"}

\* The loader's state as the cache and the calls in flight give it.
LoaderState ==
    IF wasmModule # NULL THEN "Ready"
    ELSE IF \E c \in Calls : Pending(c) THEN "Loading"
    ELSE "Unloaded"

\* C1: initWasm never rejects; whatever the load attempt's outcome, the
\* promise resolves with a non-null table.
C1_InitWasmNeverRejects ==
    \A c \in Calls :
        /\ pc[c] \in {"idle", "awaitImport", "awaitInit", "resolved"}
        /\ Resolved(c) => result[c] # NULL /\ result[c].kind \in {"module", "script"}

\* Two calls whose load attempts failed have resolved, the later failure
\* being a rejection of the bindings' init.
C1_Witness ==
    \E c1, c2 \in Calls :
        /\ c1 # c2
        /\ Resolved(c1) /\ via[c1] = "failed"
        /\ Resolved(c2) /\ via[c2] = "failed"
        /\ lastFailure = "init rejected"

\* C2: all calls started before the first one resolved receive the
\* reference-equal table (never a module-backed and a script-only one).
C2_ConcurrentCallersShareTable ==
    \A c1, c2 \in Calls :
        (/\ Resolved(c1) /\ StartedOnEmptyCache(c1)
         /\ Resolved(c2) /\ StartedOnEmptyCache(c2))
        => result[c1] = result[c2]

\* C3: at most one load attempt is ever started and the cache variable is
\* written exactly once.
C3_SingleAttemptSingleWrite == attempts <= 1 /\ cacheWrites <= 1

\* C4: a call made when the cache is non-null resolves at once with the
\* cached table, starts no load attempt and leaves the cache alone, whatever
\* its path argument.
C4_CachedTableReturned ==
    [][\A c \in Calls :
          (pc[c] = "idle" /\ pc'[c] # "idle" /\ wasmModule # NULL)
          => /\ pc'[c] = "resolved"
             /\ result'[c] = wasmModule
             /\ wasmModule' = wasmModule
             /\ attempts' = attempts]_vars

\* A call whose path differs from the first call's was served from the cache.
C4_Witness ==
    \E c \in Calls :
        /\ Resolved(c) /\ via[c] = "cached"
        /\ path[c] # path[1]
        /\ result[c] = wasmModule

\* C5: after a failed load attempt (the import or the init failed in the
\* browser) the returned table holds a script implementation for every
\* operation of the vocabulary.
C5_FallbackTableTotal ==
    \A c \in Calls :
        (hasWindow /\ Resolved(c) /\ via[c] = "failed")
        => \A name \in Vocabulary : result[c].ops[name] = "js"

\* C6: after a successful load every entry is the module's export when the
\* module exports the name and the script implementation when it does not.
C6_ModuleTableTotal ==
    \A c \in Calls :
        (Resolved(c) /\ via[c] = "loaded")
        => \A name \in Vocabulary :
              result[c].ops[name] = IF name \in bindingExports THEN "wasm" ELSE "js"

\* C7: no WasmLinkAnalyzer method throws or rejects; when the table entry
\* throws, the method returns its safe default.
C7_AnalyzerNeverThrows ==
    lastOp.op = "invoke"
    => /\ lastOp.outcome \in {"value", "default"}
       /\ lastOp.threw
          => /\ lastOp.outcome = "default"
             /\ lastOp.method \in {"analyzeUrl", "generateSecureHash",
                                   "runPerformanceBenchmark"}
                => lastOp.value = "null"
             /\ lastOp.method \in {"batchAnalyzeUrls", "extractEmailsFromText"}
                => lastOp.value = "[]"
             /\ lastOp.method = "generateId" => lastOp.value = "random string"

\* An entry the module exports threw, and the method returned its default.
C7_Witness ==
    /\ lastOp.op = "invoke"
    /\ lastOp.entry = "wasm"
    /\ lastOp.threw
    /\ lastOp.outcome = "default"

\* C8: the loader moves only Unloaded -> Loading -> Ready (or straight to
\* Ready); a failed attempt ends in Ready with the all-script table cached,
\* Ready is never left, and no call made in Ready starts a load attempt.
C8_NoFailedState ==
    [][/\ <<LoaderState, LoaderState'>> \in
            {<<"Unloaded", "Unloaded">>, <<"Unloaded", "Loading">>,
             <<"Unloaded", "Ready">>, <<"Loading", "Loading">>,
             <<"Loading", "Ready">>, <<"Ready", "Ready">>}
       /\ \A c \in Calls :
            (via[c] = "none" /\ via'[c] = "failed")
            => /\ pc'[c] = "resolved"
               /\ wasmModule' = result'[c]
               /\ wasmModule'.kind = "script"
               /\ \A name \in Vocabulary : wasmModule'.ops[name] # "wasm"
       /\ \A c \in Calls :
            (LoaderState = "Ready" /\ pc[c] = "idle" /\ pc'[c] # "idle")
            => pc'[c] = "resolved" /\ attempts' = attempts]_vars

\* A load attempt failed in the browser and a later call was served from
\* the cache it left.
C8_Witness ==
    /\ hasWindow
    /\ \E c1, c2 \in Calls :
          /\ Resolved(c1) /\ via[c1] = "failed"
          /\ Resolved(c2) /\ via[c2] = "cached"
          /\ result[c2].kind = "script"
    /\ LoaderState = "Ready"

\* C9: with the module absent or failing (the import or the init rejected),
\* every call on the resulting table through WasmLinkAnalyzer succeeds with
\* fallback semantics (the script implementation answers).
C9_FallbackCallsSucceed ==
    (hasWindow /\ lastOp.op = "invoke" /\ lastOp.table = "script")
    => lastOp.outcome = "value" /\ lastOp.entry = "js"

\* C9, first half: every pending initWasm call eventually resolves.
C9_PendingCallsResolve == \A c \in Calls : Pending(c) ~> Resolved(c)

\* C10: once non-null, the cache is never set back to null by any operation.
C10_CacheNeverReset == [][wasmModule # NULL => wasmModule' # NULL]_vars

\* The cache was written a second time and the analyzer or the diagnostic
\* has run.
C10_Witness ==
    /\ wasmModule # NULL
    /\ cacheWrites >= 2
    /\ lastOp.op \in {"invoke", "test"}

\* C11: a component's wasmModule state is non-null (the WASM-powered line is
\* shown) only if the compiled module loaded; after a load failure the
\* component shows the fallback line.  Mount effects run in the browser only.
C11_IndicatorOnlyWhenLoaded ==
    \A c \in Calls :
        (hasWindow /\ StatusIndicator(c) = "wasm")
        => componentWasm[c].kind = "module"

\* C12: testWasmVsJavaScript never throws, and whenever no compiled module
\* is loaded (the cache is empty, or a failed load left the all-script table
\* in it) it reports wasmWorking = false and still returns the script result.
C12_NotWorkingWithoutModule ==
    (hasWindow /\ lastOp.op = "test" /\ lastOp.table \in {"null", "script"})
    => /\ lastOp.wasmWorking = FALSE
       /\ lastOp.jsResult = JsResult(lastOp.url)

\* The diagnostic ran on an absolute http(s) URL with a module-backed table
\* in the cache, and both implementations classified the URL as external.
BothClassifyExternal ==
    /\ lastOp.op = "test"
    /\ lastOp.table = "module"
    /\ JsIsExternal(lastOp.url)
    /\ lastOp.wasmResult # NullV
    /\ lastOp.wasmResult.is_external = BoolV(TRUE)
    /\ lastOp.jsResult.is_external = BoolV(TRUE)

C14_NormalizeIdempotent ==
    lastOp.op = "normalize_url" => lastOp.again = lastOp.output

\* C15: hashing the empty string yields a defined hash value without
\* throwing on both paths.  This is the script-only path of
\* WasmLinkAnalyzer.generateSecureHash (the argument never reaches an entry
\* that is undefined): the call returns a hash value.
C15_EmptyStringHashDefined ==
    (hasWindow /\ lastOp.op = "invoke" /\ lastOp.method = "generateSecureHash"
               /\ lastOp.table = "script")
    => lastOp.outcome = "value"

\* C15, the components' part: simple_hash returns a non-empty string of hex
\* digits for every input, "0" for the empty string.
C15_SimpleHashDefined ==
    lastOp.op = "simple_hash"
    => /\ lastOp.output # << >>
       /\ \A i \in 1..Len(lastOp.output) :
             \E d \in 1..16 : lastOp.output[i] = HexDigits[d]
       /\ lastOp.input = << >> => lastOp.output = <<"0">>

\* C16: get_protocol returns the lower-cased scheme: for
\* 'HTTP://EXAMPLE.COM/a//b/../c/' the script-backed get_protocol returns
\* 'http'.
C16_ProtocolLowerCased ==
    (lastOp.op = "get_protocol" /\ lastOp.input = ScenarioUrl)
    => lastOp.output = StrV(<<"h", "t", "t", "p">>)

\* C16, the lower-case spelling of the URL: the script get_protocol
\* returns 'http'.
C16_LowerCaseSchemeFound ==
    (lastOp.op = "get_protocol" /\ lastOp.input = LowerScenarioUrl)
    => lastOp.output = StrV(<<"h", "t", "t", "p">>)

\* C17 as stated: path segmentation of 'HTTP://EXAMPLE.COM/a//b/../c/'
\* yields ["a","b","c"].
C17_SegmentsABC ==
    (lastOp.op = "get_path_segments" /\ lastOp.input = ScenarioUrl)
    => lastOp.output = << <<"a">>, <<"b">>, <<"c">> >>

\* C17, amended: get_path_segments returns the non-empty segments left
\* after the URL parser resolved '.' and '..'; for
\* 'HTTP://EXAMPLE.COM/a//b/../c/' that is ["a","c"], '..' having removed
\* "b".
C17_SegmentsAfterDotResolution ==
    lastOp.op = "get_path_segments"
    => /\ \A i \in 1..Len(lastOp.output) :
             lastOp.output[i] \notin {<< >>, <<".">>, <<".", ".">>}
       /\ lastOp.input \in {ScenarioUrl, LowerScenarioUrl}
          => lastOp.output = << <<"a">>, <<"c">> >>

\* The scenario URL was segmented.
C17_Witness ==
    /\ lastOp.op = "get_path_segments"
    /\ lastOp.input = ScenarioUrl
    /\ lastOp.output = << <<"a">>, <<"c">> >>

\* C18: a failure inside a component's processing function (analyzeUrl,
\* processText, parseUrl, validateData, performCrypto) never surfaces as a
\* thrown error: the function always resolves with a complete result record,
\* the catch block's default record when something threw.
C18_ProcessingNeverThrows ==
    lastOp.op = "process"
    => /\ lastOp.outcome \in {"record", "default"}
       /\ lastOp.fields = ResultFields(lastOp.fn)
       /\ lastOp.threw => lastOp.outcome = "default"

\* analyzeUrl called an entry the loaded module does not export and
\* returned its default record.
C18_Witness ==
    /\ lastOp.op = "process"
    /\ lastOp.fn = "analyzeUrl"
    /\ lastOp.table = "module"
    /\ bindingExports = {}
    /\ lastOp.threw
    /\ lastOp.outcome = "default"

\* C19: a call routed through WasmLinkAnalyzer to a name the table does not
\* define raises; it does not return the safe default.
C19_AbsentOperationRaises ==
    (lastOp.op = "invoke" /\ lastOp.entry = "undef")
    => lastOp.outcome = "threw" /\ lastOp.value # SafeDefault(lastOp.method)

\* C20: without a window (server-side rendering) initWasm starts no dynamic
\* import and no fetch: the call goes straight to the script-only table,
\* caches it and returns it.
C20_NoImportWithoutWindow ==
    [][\A c \in Calls :
          (~hasWindow /\ pc[c] = "idle" /\ pc'[c] # "idle")
          => /\ pc'[c] = "resolved"
             /\ attempts' = 0
             /\ result'[c].kind = "script"
             /\ wasmModule' = result'[c]]_vars

\* A call made without a window built the script table and cached it.
C20_Witness ==
    /\ ~hasWindow
    /\ attempts = 0
    /\ \E c \in Calls :
          /\ Resolved(c) /\ via[c] = "failed"
          /\ lastFailure = "no window"
          /\ result[c].kind = "script"
          /\ wasmModule = result[c]

\* C21: all script implementations of the same operation agree: for every
\* input, get_protocol and normalize_url return equal values in the
\* bridge's fallback table, in LinkAnalyzer's fallbackAnalyzer and in
\* testWasmVsJavaScript's jsFallback.
C21_ScriptImplementationsAgree ==
    /\ lastOp.op = "get_protocol"
       => \A impl \in ProtocolImpls : GetProtocol(impl, lastOp.input) = lastOp.output
    /\ lastOp.op = "normalize_url"
       => \A impl \in NormalizeImpls : NormalizeUrl(impl, lastOp.input) = lastOp.output

\* C22: when the table in use lacks an optional export, the script
\* implementation is substituted for that one field only: without
\* count_grapheme_clusters processText returns characterCount = text length,
\* without hash_sha256 hashValue = simple_hash(text); the other fields are
\* computed as usual and, unless an export that is called throws, the result
\* is not the error record.
C22_MissingExportSubstituted ==
    (lastOp.op = "processText" /\ lastOp.table # NULL)
    => LET r == lastOp.results
           t == lastOp.table
       IN  /\ (\A name \in TextOps : t.ops[name] = "undef") => ~lastOp.threw
           /\ ~lastOp.threw
              => /\ r.outcome = "record"
                 /\ t.ops["count_grapheme_clusters"] = "undef"
                    => r.characterCount = Len(lastOp.input)
                 /\ t.ops["hash_sha256"] = "undef"
                    => r.hashValue = SimpleHash(lastOp.input)
                 /\ r.wordCount = CountWords(lastOp.input)
                 /\ r.cleanText = CleanText(lastOp.input)
                 /\ r.slugified = Slugify(lastOp.input)

\* The module exports count_grapheme_clusters but not hash_sha256: the
\* count is the module's, the hash is simple_hash's.
C22_Witness ==
    /\ lastOp.op = "processText"
    /\ lastOp.table # NULL
    /\ lastOp.table.kind = "module"
    /\ lastOp.table.ops["count_grapheme_clusters"] = "wasm"
    /\ lastOp.table.ops["hash_sha256"] = "undef"
    /\ lastOp.results.outcome = "record"
    /\ lastOp.results.hashValue = SimpleHash(lastOp.input)
    /\ lastOp.input = <<"a", " ", "a">>
    /\ lastOp.results.wordCount = 2

\* C23: changing the input clears the results: immediately after
\* handleInputChange the results are null, and they stay null until a run
\* completes.
C23_InputChangeClearsResults ==
    [][/\ (ui'.event = "change" /\ ui'.input # ui.input)
          => ui'.results = NoResults
       /\ (ui.results = NoResults /\ ui'.results # NoResults)
          => \E r \in Runs : ui.runs[r].pc = "awaiting" /\ ui'.runs[r].pc = "done"]_vars

\* A run had completed and stored its results, then the input was changed.
C23_Witness ==
    /\ ui.event = "change"
    /\ \E r \in Runs : ui.runs[r].pc = "done"
    /\ InFlight = {}
    /\ ui.results = NoResults

\* C24: in CryptoTools the results a run stores were computed from the
\* current input value: an input change while the run is suspended on the
\* hash never ends with the old input's results stored for the new input.
C24_ResultsFromCurrentInput ==
    (/\ ui.component = "CryptoTools"
     /\ ui.event \in {"completed", "callback threw"}
     /\ ui.results # NoResults)
    => ui.results.from = ui.input

\* C25: a run handler invoked while the input is empty or whitespace-only
\* is a no-op: loading and results are unchanged, no processing function is
\* called and the consumer callback is not invoked.
C25_BlankInputNoOp ==
    [][(/\ Trim(ui.input) = << >>
        /\ \E r \in Runs : ui.runs[r].pc = "idle" /\ ui'.runs[r].pc # "idle")
       => /\ ui'.loading = ui.loading
          /\ ui'.results = ui.results
          /\ ui'.input = ui.input
          /\ ui'.calls = ui.calls
          /\ ui'.callbacks = ui.callbacks
          /\ InFlight' = InFlight]_vars

\* The handler has returned early on a whitespace-only input.
C25_Witness ==
    /\ ui.input = <<" ">>
    /\ ui.event = "run"
    /\ \E r \in Runs : ui.runs[r].pc = "returned"
    /\ ~ui.loading
    /\ ui.calls = 0

\* C27: PerformanceBenchmark keeps the last 10 results: the list never has
\* more than 10 entries and is ordered newest first; a completed run
\* prepends its result and drops the oldest beyond 10; clearResults empties
\* the list.
C27_LastTenResults ==
    /\ [](/\ Len(bench.results) <= 10
          /\ \A i \in 1..Len(bench.results), j \in 1..Len(bench.results) :
                i < j => bench.results[i] > bench.results[j])
    /\ [][/\ bench'.event = "completed"
             => \E r \in Benchmarks :
                  /\ bench.runs[r] # "done" /\ bench'.runs[r] = "done"
                  /\ bench'.results[1] = r
                  /\ Len(bench'.results) = IF Len(bench.results) < 10
                                           THEN Len(bench.results) + 1 ELSE 10
                  /\ \A i \in 2..Len(bench'.results) :
                        bench'.results[i] = bench.results[i - 1]
          /\ bench'.event = "clear" => bench'.results = << >>]_vars

\* The eleventh result has pushed the first one out of a full list.
C27_Witness ==
    /\ Len(bench.results) = 10
    /\ bench.results[10] > 1
    /\ bench.runs[1] = "done"
    /\ bench.event = "completed"

\* The mounted component's loading flag.
Loading == IF ui # NoComponent THEN ui.loading ELSE bench.loading

\* A run of the mounted component is suspended at an await.
RunInFlight ==
    IF ui # NoComponent THEN InFlight # {}
    ELSE \E r \in Benchmarks : bench.runs[r] \in {"js timer", "wasm timer"}

\* C26: every run that sets loading to true eventually sets it back to
\* false, also when the processing function or the consumer callback
\* throws, and loading is true only while a run is in flight.
C26_LoadingReset ==
    /\ [](Loading => RunInFlight)
    /\ Loading ~> ~Loading

\* A run whose callback threw has ended and loading is false again.
C26_Witness ==
    /\ ui # NoComponent
    /\ ui.event = "callback threw"
    /\ \E r \in Runs : ui.runs[r].pc = "done"
    /\ ~ui.loading

\* The score the claim gives for a validation record.
ClaimedScore(r, input) ==
    LET raw == 100 - (IF r.containsSqlInjection THEN 40 ELSE 0)
                   - (IF r.containsXss THEN 40 ELSE 0)
                   - (IF r.passwordStrength < 50 /\ Len(input) > 5 THEN 20 ELSE 0)
    IN  IF raw > 0 THEN raw ELSE 0

\* C28 as stated: securityScore is always the claimed function of the
\* record's containsSqlInjection, containsXss and passwordStrength.
C28_ScoreAlwaysFormula ==
    lastOp.op = "validateData"
    => lastOp.results.securityScore = ClaimedScore(lastOp.results, lastOp.input)

\* C28: securityScore and passwordStrength are within 0..100, and unless
\* validation threw (the record is then the error record, score 0)
\* securityScore = max(0, 100 - 40*[containsSqlInjection] - 40*[containsXss]
\* - 20*[passwordStrength < 50 and input length > 5]).
C28_ScoreInRangeAndFormula ==
    /\ lastOp.op = "calculatePasswordStrength" => lastOp.output \in 0..100
    /\ lastOp.op = "validateData"
       => /\ lastOp.results.securityScore \in 0..100
          /\ lastOp.results.passwordStrength \in 0..100
          /\ ~lastOp.threw
             => lastOp.results.securityScore
                  = ClaimedScore(lastOp.results, lastOp.input)
          /\ lastOp.threw => lastOp.results.securityScore = 0

\* A short string with an injection pattern: the weak-password penalty does
\* not apply, the injection penalty does.
C28_Witness ==
    /\ lastOp.op = "validateData"
    /\ ~lastOp.threw
    /\ Len(lastOp.input) = 5
    /\ lastOp.results.containsSqlInjection
    /\ ~lastOp.results.containsXss
    /\ lastOp.results.passwordStrength < 50
    /\ lastOp.results.securityScore = 60

\* C29: in the script-only table is_internal is the exact complement of
\* is_external: for every href exactly one of the two is true.
C29_InternalComplementsExternal ==
    lastOp.op = "classify" => (lastOp.internal <=> ~lastOp.external)

\* An https URL was classified as external and not internal.
C29_Witness ==
    /\ lastOp.op = "classify"
    /\ StartsWith(lastOp.input, HttpsPrefix)
    /\ lastOp.external
    /\ ~lastOp.internal

\* The order of the steps of build, without and with watch.
StepOrder ==
    <<"prerequisites", "clean", "type-check", "lint", "tests", "wasm",
      "library", "optimize", "analyze", "summary">>

WatchOrder ==
    <<"prerequisites", "clean", "type-check", "lint", "tests", "wasm",
      "library", "watch info">>

IsPrefix(s, t) == Len(s) <= Len(t) /\ s = SubSeq(t, 1, Len(s))

\* The steps run so far are an initial part of the fixed order.
RanInOrder ==
    IsPrefix(build.ran, IF build.options.watch THEN WatchOrder ELSE StepOrder)

\* The commands whose failure the script tolerates.
ToleratedCommands == {"wasm-pack --version", "rm -f"}

\* C30 as stated: the steps run in the fixed order, and when any step's
\* command fails the process exits with code 1 and no later step runs.
C30_AnyFailedCommandExits ==
    /\ RanInOrder
    /\ build.failedCommands # {} => build.exit = 1

\* C30: the steps run in the fixed order; when a command run through exec
\* or a crate's wasm-pack build fails the process exits with code 1 and no
\* later step runs; a failing wasm-pack probe only disables the WASM step
\* and a failing rm -f is ignored.
C30_OrderAndExitOnFailure ==
    /\ [](/\ RanInOrder
          /\ (build.failedCommands \ ToleratedCommands) # {}
             => build.exit = 1 /\ build.state = "exited"
          /\ "wasm-pack --version" \in build.failedCommands
             => build.options.skipWasm /\ build.built = << >>)
    /\ [][/\ build.exit = 1 => build' = build
          /\ (build.failedCommands \ ToleratedCommands) = {}
             /\ (build'.failedCommands \ ToleratedCommands) # {}
             => build'.exit = 1 /\ Len(build'.ran) = Len(build.ran) + 1]_vars

\* The lint command failed: lint is the last step run and the exit code is 1.
C30_Witness ==
    /\ build.failedCommands = {"pnpm lint"}
    /\ build.exit = 1
    /\ build.ran = <<"prerequisites", "clean", "type-check", "lint">>

====
